---- MODULE Spec2Model ----
(***************************************************************************)
(* Model of the CSV quality analysis and cleaning engine of                *)
(* backend/server.js (analyzeCSVQuality, cleanCSVData and their helpers).  *)
(*                                                                         *)
(* A cell is a JavaScript string.  A string that is a plain decimal number *)
(* is the record Num(n, d): its value is n / Scale and it is written with  *)
(* d decimals, so "14.5" and "14.50" are different cells with one value.   *)
(* Every other string is Txt(s).  Arithmetic is exact: Scale is chosen so  *)
(* that every median, quartile and fence of two-decimal values is a whole  *)
(* number of units.                                                        *)
(***************************************************************************)
EXTENDS Integers, Sequences, FiniteSets, TLC

\* ------------------------------------------------------------------ bounds
MaxRows == 3
MaxVals == 5
MaxCodes == 4
MaxPairs == 3
MaxTyped == 5
MaxList == 7
LargeRows == 20001

\* units per 1: 100 hundredths, each of 400 units, so that halves (medians),
\* quarters (percentile weights) and halves of those (1.5 * IQR) are whole
Scale == 100 * 400

\* ------------------------------------------------------- integer helpers
Abs(x) == IF x < 0 THEN 0 - x ELSE x

Max2(a, b) == IF a >= b THEN a ELSE b

RECURSIVE GCDNat(_, _)
GCDNat(a, b) == IF b = 0 THEN a ELSE GCDNat(b, a % b)

GCD(a, b) == GCDNat(Abs(a), Abs(b))

RECURSIVE SumSeq(_)
SumSeq(s) == IF s = << >> THEN 0 ELSE Head(s) + SumSeq(Tail(s))

RECURSIVE GCDSeq(_)
GCDSeq(s) == IF s = << >> THEN 0 ELSE GCD(Head(s), GCDSeq(Tail(s)))

Range(s) == {s[i] : i \in 1..Len(s)}

\* Array.prototype.sort((a, b) => a - b) on numbers
SortNum(s) == SortSeq(s, LAMBDA a, b : a < b)

\* round a quotient num/den (den > 0) to the nearest integer, ties away from 0
RoundDiv(num, den) ==
    IF num >= 0 THEN (2 * num + den) \div (2 * den)
    ELSE 0 - ((2 * (0 - num) + den) \div (2 * den))

\* x.toFixed(2) of the quotient 100 * num / den, in hundredths
PercentToFixed2(num, den) == RoundDiv(num * 10000, den)

\* ------------------------------------------------------------------ cells
Txt(s) == [k |-> "txt", s |-> s, n |-> 0, d |-> 0]

Num(n, d) == [k |-> "num", s |-> "", n |-> n, d |-> d]

IsNum(c) == c.k = "num"

Pow10(d) == CASE d = 0 -> 1 [] d = 1 -> 10 [] d = 2 -> 100 [] d = 3 -> 1000
              [] d = 4 -> 10000 [] OTHER -> 100000

\* number of decimals Number.prototype.toString writes for n / Scale: the
\* length of the fraction's decimal expansion
RECURSIVE DecimalsFrom(_, _)
DecimalsFrom(frac, d) ==
    IF frac = 0 THEN d ELSE DecimalsFrom((frac * 10) % Scale, d + 1)

MinDec(n) == DecimalsFrom(Abs(n) % Scale, 0)

\* Number.prototype.toString
NumToString(n) == Num(n, MinDec(n))

\* Number.prototype.toFixed(f) for f in {2, 4}: round to f decimals
ToFixed(n, f) == Num(RoundDiv(n, Scale \div Pow10(f)) * (Scale \div Pow10(f)), f)

IsInteger(n) == n % Scale = 0

Int2Cell(i) == Num(i * Scale, 0)

\* String.prototype.trim
TrimStr(s) == CASE s = " " -> "" [] s = " a " -> "a" [] OTHER -> s

\* String.prototype.toLowerCase
LowerStr(s) == CASE s = "NULL" -> "null"
                 [] s = "A" -> "a"
                 [] s = "B" -> "b"
                 [] s = "Yes" -> "yes"
                 [] s = "BAD EMAIL" -> "bad email"
                 [] s = "A@B.co" -> "a@b.co"
                 [] s = "AB.co" -> "ab.co"
                 [] OTHER -> s

\* value.replace(/[^\w\s\-.,]/g, '').trim()
StripSpecial(s) == CASE s = "a@b.co" -> "ab.co"
                     [] s = "A@B.co" -> "AB.co"
                     [] s = "x!" -> "x"
                     [] s = " " -> ""
                     [] s = " a " -> "a"
                     [] OTHER -> s

\* value.replace(/[^\d+\-()]/g, '') on a text cell: the digits, +, -, ( and )
PhoneCleanStr(s) == CASE s = "Jan 5, 2020" -> "52020"
                      [] s = "+1 (555) 010" -> "+1(555)010"
                      [] OTHER -> ""

Trim(c) == IF IsNum(c) THEN c ELSE Txt(TrimStr(c.s))

ToLowerCase(c) == IF IsNum(c) THEN c ELSE Txt(LowerStr(c.s))

\* JavaScript truthiness of a string: every string but ''
Truthy(c) == c # Txt("")

\* the number Infinity: above every finite number of the model.  Sums,
\* differences and products with it are not whole numbers of units; every
\* operator that can be handed it tests for it before it computes.  Only
\* the analysis is handed it: no table given to the cleaner holds it.
Infinity == 50000 * Scale

\* texts that start with a number: parseFloat reads the leading number
PrefixTexts == {"2020-01-05", "12abc", "Infinity"}

PrefixNumber(s) == CASE s = "2020-01-05" -> 2020 * Scale
                     [] s = "12abc" -> 12 * Scale
                     [] s = "Infinity" -> Infinity
                     [] OTHER -> 0

\* !isNaN(parseFloat(c))
ParsesFloat(c) == IsNum(c) \/ c.s \in PrefixTexts

\* parseFloat(c), in units of 1 / Scale
ParseFloat(c) == IF IsNum(c) THEN c.n ELSE PrefixNumber(c.s)

\* !isNaN(value) && value !== '' on a trimmed string (Number(value) is a number)
IsNumericString(c) == IsNum(c)

\* texts of the alphabet Date.parse accepts
DateTexts == {"Jan 5, 2020", "2020-01-05"}

\* !isNaN(Date.parse(c)).  For a decimal number string the ISO form is a
\* four-digit year; the legacy fallback of V8 also reads 1..12 as a month
\* and 32..99 as a year.
DateParses(c) ==
    IF IsNum(c)
    THEN /\ c.d = 0
         /\ \/ (c.n >= 1 * Scale /\ c.n <= 12 * Scale)
            \/ (c.n >= 32 * Scale /\ c.n <= 9999 * Scale)
    ELSE c.s \in DateTexts

\* column.toLowerCase().includes(word)
NameIncludes(column, word) ==
    CASE word = "date" -> column \in {"date", "signup_date"}
      [] word = "time" -> column \in {"time"}
      [] word = "email" -> column \in {"email"}
      [] word = "phone" -> column \in {"phone"}
      [] OTHER -> FALSE

\* the missing-cell test of analysis and of imputation
IsMissing(c) == \/ ~Truthy(c)
                \/ Trim(c) = Txt("")
                \/ ToLowerCase(c) = Txt("null")

\* val && val.trim() !== ''
HasValue(c) == Truthy(c) /\ Trim(c) # Txt("")

\* ------------------------------------------------- helpers of the analysis
\* mutant: a column that holds numbers and other values is called mixed
detectDataTypeWithMixed(values) ==
    LET nonEmptyValues == SelectSeq(values, LAMBDA v : v # Txt(""))
        numericCount == Len(SelectSeq(nonEmptyValues, ParsesFloat))
        dateCount == Len(SelectSeq(nonEmptyValues, DateParses))
    IN  IF Len(values) = 0 THEN "unknown"
        ELSE IF Len(nonEmptyValues) = 0 THEN "unknown"
        ELSE IF 5 * numericCount > 4 * Len(nonEmptyValues) THEN "numeric"
        ELSE IF numericCount > 0 THEN "mixed"
        ELSE IF 5 * dateCount > 4 * Len(nonEmptyValues) THEN "date"
        ELSE "categorical"

\* mutant: a share of the values of exactly 0.8 is enough
detectDataTypeAtLeast(values) ==
    LET nonEmptyValues == SelectSeq(values, LAMBDA v : v # Txt(""))
        numericCount == Len(SelectSeq(nonEmptyValues, ParsesFloat))
        dateCount == Len(SelectSeq(nonEmptyValues, DateParses))
    IN  IF Len(values) = 0 THEN "unknown"
        ELSE IF Len(nonEmptyValues) = 0 THEN "unknown"
        ELSE IF 5 * numericCount >= 4 * Len(nonEmptyValues) THEN "numeric"
        ELSE IF 5 * dateCount >= 4 * Len(nonEmptyValues) THEN "date"
        ELSE "categorical"

\* detectDataType (server.js 1663-1680)
detectDataType(values) ==
    LET nonEmptyValues == SelectSeq(values, LAMBDA v : v # Txt(""))
        numericCount == Len(SelectSeq(nonEmptyValues, ParsesFloat))
        dateCount == Len(SelectSeq(nonEmptyValues, DateParses))
    IN  IF Len(values) = 0 THEN "unknown"
        ELSE IF Len(nonEmptyValues) = 0 THEN "unknown"
        ELSE IF 5 * numericCount > 4 * Len(nonEmptyValues) THEN "numeric"
        ELSE IF 5 * dateCount > 4 * Len(nonEmptyValues) THEN "date"
        ELSE "categorical"

\* percentile, the second declaration (server.js 1782-1791); it replaces the
\* first one (1698-1707) at load time and does not sort its argument.
\* p is 25, 50 or 75, so the index is a whole number of quarters.
percentile(sortedArray, p) ==
    LET q == (p \div 25) * (Len(sortedArray) - 1)
        fl == q \div 4
        fr == q % 4
    IN  IF fr = 0 THEN sortedArray[fl + 1]
        ELSE LET lower == sortedArray[fl + 1]
                 upper == sortedArray[fl + 2]
             IN  lower + ((upper - lower) * fr) \div 4

HasInfinity(values) == Infinity \in Range(values)

\* the kind of number percentile returns for an array that may hold
\* Infinity: Infinity - Infinity is NaN, and a finite number plus a positive
\* share of Infinity is Infinity
percentileKind(sortedArray, p) ==
    LET q == (p \div 25) * (Len(sortedArray) - 1)
        fl == q \div 4
        fr == q % 4
    IN  IF fr = 0
        THEN (IF sortedArray[fl + 1] = Infinity THEN "Infinity" ELSE "finite")
        ELSE IF sortedArray[fl + 1] = Infinity THEN "NaN"
        ELSE IF sortedArray[fl + 2] = Infinity THEN "Infinity"
        ELSE "finite"

\* Q1 - 1.5 * IQR and Q3 + 1.5 * IQR of the array as it is passed
LowerFence(arr) ==
    LET Q1 == percentile(arr, 25)
        Q3 == percentile(arr, 75)
    IN  Q1 - (3 * (Q3 - Q1)) \div 2

UpperFence(arr) ==
    LET Q1 == percentile(arr, 25)
        Q3 == percentile(arr, 75)
    IN  Q3 + (3 * (Q3 - Q1)) \div 2

\* detectOutliers (server.js 1688-1696): the fences of the unsorted array
detectOutliers(values) ==
    SelectSeq(values, LAMBDA v : v < LowerFence(values) \/ v > UpperFence(values))

\* n * x - sum for every x: n times the deviation from the mean, divided by
\* the common divisor so that squares stay small
Deviations(values) ==
    LET n == Len(values)
        S == SumSeq(values)
        raw == [i \in 1..n |-> n * values[i] - S]
        g == GCDSeq(raw)
    IN  IF g = 0 THEN raw ELSE [i \in 1..n |-> raw[i] \div g]

SumSquares(devs) == SumSeq([i \in 1..Len(devs) |-> devs[i] * devs[i]])

\* calculateStandardDeviation(values) === 0 (server.js 1682-1686)
StdIsZero(values) == SumSquares(Deviations(values)) = 0

\* mutant: the z-score threshold is the IQR factor 1.5 instead of 2.5
detectAdvancedOutliersLowThreshold(values) ==
    LET sorted == SortNum(values)
        lowerBound == LowerFence(sorted)
        upperBound == UpperFence(sorted)
        n == Len(values)
        devs == Deviations(values)
        ss == SumSquares(devs)
        finiteFences == /\ percentileKind(sorted, 25) = "finite"
                        /\ percentileKind(sorted, 75) = "finite"
        idx == {i \in 1..n : /\ ~HasInfinity(values)
                              /\ ss # 0
                              /\ 4 * n * devs[i] * devs[i] > 9 * ss}
    IN  [iqr |-> IF finiteFences
                 THEN SelectSeq(values, LAMBDA v : v < lowerBound \/ v > upperBound)
                 ELSE << >>,
         zscore |-> [j \in 1..Cardinality(idx) |->
                       values[CHOOSE i \in idx : Cardinality({m \in idx : m < i}) = j - 1]]]

\* detectAdvancedOutliers (server.js 1807-1825).  |x - mean| / std > 2.5 is
\* 4 * n * dev^2 > 25 * sum(dev^2); with std = 0 the quotient is NaN and the
\* comparison is false.  With Infinity among the values the mean is Infinity
\* and std is NaN, and a fence that is not finite is -Infinity, Infinity or
\* NaN: no value is strictly outside it.
detectAdvancedOutliers(values) ==
    LET sorted == SortNum(values)
        lowerBound == LowerFence(sorted)
        upperBound == UpperFence(sorted)
        n == Len(values)
        devs == Deviations(values)
        ss == SumSquares(devs)
        finiteFences == /\ percentileKind(sorted, 25) = "finite"
                        /\ percentileKind(sorted, 75) = "finite"
        idx == {i \in 1..n : /\ ~HasInfinity(values)
                              /\ ss # 0
                              /\ 4 * n * devs[i] * devs[i] > 25 * ss}
    IN  [iqr |-> IF finiteFences
                 THEN SelectSeq(values, LAMBDA v : v < lowerBound \/ v > upperBound)
                 ELSE << >>,
         zscore |-> [j \in 1..Cardinality(idx) |->
                       values[CHOOSE i \in idx : Cardinality({m \in idx : m < i}) = j - 1]]]

\* calculateSkewness (server.js 1793-1798), as the kind of number it
\* returns: n / ((n - 1) * (n - 2)) is Infinity for n = 2, and Infinity
\* times the zero sum of the two cubes is NaN.  With Infinity among the
\* values std is NaN, which is not 0, and the sum is NaN.
calculateSkewness(values) ==
    LET n == Len(values)
    IN  IF HasInfinity(values) THEN "NaN"
        ELSE IF StdIsZero(values) THEN "0"
        ELSE IF (n - 1) * (n - 2) = 0 THEN "NaN"
        ELSE "finite"

\* calculateKurtosis (server.js 1800-1805): for n = 2 and n = 3 both terms
\* are infinite with the same sign and their difference is NaN.
calculateKurtosis(values) ==
    LET n == Len(values)
    IN  IF HasInfinity(values) THEN "NaN"
        ELSE IF StdIsZero(values) THEN "0"
        ELSE IF (n - 1) * (n - 2) * (n - 3) = 0 THEN "NaN"
        ELSE "finite"

\* ---------------------------------------------------------------- tables
\* A row object is a function from the header names to cells.  The cleaner
\* holds its rows in a heap of objects: results and cleanedData are arrays
\* of references into it, as [...results] and _.uniqBy copy references only.
TableHeaders == <<"name", "email">>

NameCells == {Txt(""), Txt("null"), Txt("A"), Txt("a"), Int2Cell(1)}

EmailCells == {Txt(""), Txt("BAD EMAIL"), Txt("a@b.co")}

TableRows == {[c \in {"name", "email"} |-> IF c = "name" THEN x ELSE y] :
                 x \in NameCells, y \in EmailCells}

NumericHeaders == <<"age">>

AgeValues == {10, 11, 12, 13, 1000}

AgeRows == {[c \in {"age"} |-> Int2Cell(v)] : v \in AgeValues}

\* a file of one column of numbers, close ones and a far one
ListValues == {1, 2, 100}

ListRows == {[c \in {"age"} |-> Int2Cell(v)] : v \in ListValues}

\* a file of LargeRows rows with one column, the rows 2..(1 + m) empty
LargeHeaders == <<"name">>

LargeTable(m) == [i \in 1..LargeRows |->
                    [c \in {"name"} |-> IF 1 < i /\ i <= 1 + m THEN Txt("") ELSE Txt("a")]]

SeqsUpTo(S, n) == UNION {[1..m -> S] : m \in 0..n}

\* a file of one column holding missing cells of every form, text and numbers
CodeHeaders == <<"code">>

CodeCells == {Txt(""), Txt(" "), Txt("NULL"), Txt("a"), Int2Cell(1), Int2Cell(10)}

CodeRows == {[c \in {"code"} |-> x] : x \in CodeCells}

\* a column that is numeric by more than 80% of its values and holds a text
NearlyNumeric == [i \in 1..6 |->
                    [c \in {"code"} |->
                       <<Int2Cell(1), Int2Cell(1), Int2Cell(1), Int2Cell(1),
                         Int2Cell(10), Txt("a")>>[i]]]

\* a column that is categorical and holds an outlier among its numbers,
\* whichever way the quartiles are taken
TextWithNumbers == [i \in 1..7 |->
                      [c \in {"code"} |->
                         <<Txt("a"), Txt("b"), Int2Cell(1), Int2Cell(2), Int2Cell(3),
                           Int2Cell(4), Int2Cell(1000)>>[i]]]

\* a file of two columns of numbers, missing cells and the text Infinity
PairHeaders == <<"x", "y">>

XCells == {Txt(""), Int2Cell(1), Int2Cell(2), Int2Cell(3)}

YCells == {Txt(""), Int2Cell(1), Int2Cell(2), Txt("Infinity")}

PairRows == {[c \in {"x", "y"} |-> IF c = "x" THEN a ELSE b] :
                a \in XCells, b \in YCells}

\* a file of one column holding empty cells, text, dates, numbers and a
\* date that starts with a number
TypedCells == {Txt(""), Txt("a"), Txt("Jan 5, 2020"), Txt("2020-01-05"), Int2Cell(1)}

TypedRows == {[c \in {"code"} |-> x] : x \in TypedCells}

\* a column of dates by more than 80% of its values that holds a text
MostlyDates == [i \in 1..6 |->
                  [c \in {"code"} |-> IF i = 6 THEN Txt("a") ELSE Txt("Jan 5, 2020")]]

\* a file of two columns with missing cells, an outlier in either column
\* and repeated rows
FullReport == [i \in 1..7 |->
                 [c \in {"x", "y"} |->
                    IF c = "x"
                    THEN <<Int2Cell(1), Int2Cell(1), Int2Cell(1), Int2Cell(1),
                           Int2Cell(10), Txt(""), Txt("")>>[i]
                    ELSE <<Txt(""), Txt(""), Int2Cell(1), Int2Cell(1),
                           Int2Cell(1), Int2Cell(1), Int2Cell(10)>>[i]]]

VARIABLES
    file,          \* the rows of the uploaded CSV file, by value
    headers,       \* Object.keys(results[0] || {})
    options,       \* the cleaning options of the request
    heap,          \* the row objects created by the parser of cleanCSVData
    results,       \* cleanCSVData: results, an array of references
    cleanedData,   \* cleanCSVData: cleanedData, an array of references
    cleaningReport,
    pc,            \* the step cleanCSVData has completed
    run,           \* 1: cleaning the upload, 2: cleaning the cleaned file
    preCap,        \* the table as it was when the capping step started
    firstRun,      \* the result of the first of two runs on one file
    stored,        \* the metadata the clean-csv handler stores with the data
    inferred,      \* the calls of detectDataType made by the text step
    preCoerce,     \* the table as it was when the type-coercion step started
    job,           \* the analyze-csv request: handler position, record, reply
    table,         \* analyzeCSVQuality: results, by value
    analysis,      \* the report of analyzeCSVQuality
    apc            \* "parsed" or "resolved"

vars == <<file, headers, options, heap, results, cleanedData, cleaningReport,
          pc, run, preCap, firstRun, stored, inferred, preCoerce, job,
          table, analysis, apc>>

\* the column of a table held by value
ColumnOf(rows, column) == [i \in 1..Len(rows) |-> rows[i][column]]

\* the rows an array of references points to
Deref(h, data) == [i \in 1..Len(data) |-> h[data[i]]]

\* cleanedData.map(row => row[column])
Column(h, data, column) == ColumnOf(Deref(h, data), column)

\* .map(row => parseFloat(row[column])).filter(val => !isNaN(val))
NumericValues(cells) ==
    LET parsed == SelectSeq(cells, ParsesFloat)
    IN  [i \in 1..Len(parsed) |-> ParseFloat(parsed[i])]

\* cleaningReport as constructed (server.js 1412-1418)
NewCleaningReport ==
    [stepsApplied |-> << >>, rowsRemoved |-> 0, valuesImputed |-> 0,
     outliersTreated |-> 0, duplicatesRemoved |-> 0,
     processingComplete |-> FALSE, finalQualityScore |-> 0]

\* analysis as constructed (server.js 1250-1268)
NewAnalysis ==
    [totalRows |-> 0, totalColumns |-> 0, missingValues |-> << >>,
     duplicates |-> 0, dataTypes |-> << >>, outliers |-> << >>,
     summary |-> << >>, correlations |-> << >>,
     qualityMetrics |-> [completeness |-> 0, consistency |-> 0, accuracy |-> 0,
                         validity |-> 0, uniqueness |-> 0, overallScore |-> 0],
     recommendations |-> << >>]

\* no request for /api/analyze-csv is being handled.  jobRecord is the
\* document the handler holds, saved the document of the collection, saves
\* the statuses the collection accepted in order, rejected whether it
\* rejected a save, res the reply.
NoRequest == [pc |-> "idle", file |-> FALSE, jobRecord |-> << >>,
              saved |-> << >>, saves |-> << >>, rejected |-> FALSE, res |-> << >>]

\* a request for /api/analyze-csv has arrived, with or without a file
Received(hasFile) == [NoRequest EXCEPT !.pc = "received", !.file = hasFile]

\* the state after the parser has pushed every row of the file
ParsedFile(rows, hs, opt) ==
    /\ file = rows
    /\ headers = (IF Len(rows) = 0 THEN << >> ELSE hs)
    /\ options = opt
    /\ heap = rows
    /\ results = [i \in 1..Len(rows) |-> i]
    /\ cleanedData = << >>
    /\ cleaningReport = NewCleaningReport
    /\ pc = "parsed"
    /\ run = 1
    /\ preCap = << >>
    /\ firstRun = << >>
    /\ stored = << >>
    /\ inferred = << >>
    /\ preCoerce = << >>
    /\ table = rows
    /\ analysis = NewAnalysis
    /\ apc = "parsed"

\* tables of two columns with text, numbers and missing cells
Parsed(rows, hs, opt) == ParsedFile(rows, hs, opt) /\ job = NoRequest

InitTable ==
    \E opt \in [normalizeNumeric : BOOLEAN] :
        \E rows \in SeqsUpTo(TableRows, MaxRows) : Parsed(rows, TableHeaders, opt)

\* tables of one numeric column
InitAge ==
    \E opt \in [normalizeNumeric : BOOLEAN] :
        \E rows \in SeqsUpTo(AgeRows, MaxVals) :
            Len(rows) > 0 /\ Parsed(rows, NumericHeaders, opt)

Init == InitTable \/ InitAge

\* tables of one column of mixed content, and two longer ones
InitMixed ==
    \E opt \in [normalizeNumeric : BOOLEAN] :
        \/ \E rows \in SeqsUpTo(CodeRows, MaxCodes) : Parsed(rows, CodeHeaders, opt)
        \/ Parsed(NearlyNumeric, CodeHeaders, opt)
        \/ Parsed(TextWithNumbers, CodeHeaders, opt)

\* tables of one column of values of every type, and two longer ones
InitTypes ==
    \/ \E rows \in SeqsUpTo(TypedRows, MaxTyped) :
           Parsed(rows, CodeHeaders, [normalizeNumeric |-> FALSE])
    \/ Parsed(NearlyNumeric, CodeHeaders, [normalizeNumeric |-> FALSE])
    \/ Parsed(MostlyDates, CodeHeaders, [normalizeNumeric |-> FALSE])

\* tables of one numeric column of up to MaxList values
InitLists ==
    \E rows \in SeqsUpTo(ListRows, MaxList) :
        Parsed(rows, NumericHeaders, [normalizeNumeric |-> FALSE])

\* a request for /api/analyze-csv; with a file, its rows are parsed
InitJob ==
    \/ \E rows \in SeqsUpTo(CodeRows, MaxCodes) :
           /\ ParsedFile(rows, CodeHeaders, [normalizeNumeric |-> FALSE])
           /\ job = Received(TRUE)
    \/ /\ ParsedFile(<< >>, CodeHeaders, [normalizeNumeric |-> FALSE])
       /\ job = Received(FALSE)

\* tables of two columns of numbers
InitPairs ==
    \/ \E rows \in SeqsUpTo(PairRows, MaxPairs) :
           Parsed(rows, PairHeaders, [normalizeNumeric |-> FALSE])
    \/ Parsed(FullReport, PairHeaders, [normalizeNumeric |-> FALSE])

\* ------------------------------------------------- cleanCSVData, step 1
\* _.uniqBy(array, row => JSON.stringify(row)): the first row of every
\* group of rows with equal content, in the order of the array
\* mutant: _.uniq, which compares the row objects by reference
uniqByReference(h, data) == data

\* mutant: the last row of every group of equal rows is the one kept
uniqByLast(h, data) ==
    LET last == {i \in 1..Len(data) :
                    \A j \in (i + 1)..Len(data) : h[data[j]] # h[data[i]]}
    IN  [k \in 1..Cardinality(last) |->
           data[CHOOSE i \in last : Cardinality({m \in last : m < i}) = k - 1]]

uniqBy(h, data) ==
    LET first == {i \in 1..Len(data) :
                     \A j \in 1..(i - 1) : h[data[j]] # h[data[i]]}
    IN  [k \in 1..Cardinality(first) |->
           data[CHOOSE i \in first : Cardinality({m \in first : m < i}) = k - 1]]

RemoveDuplicates ==
    /\ pc = "parsed"
    /\ LET unique == uniqBy(heap, results)
           removed == Len(results) - Len(unique)
       IN  /\ cleanedData' = unique
           /\ cleaningReport' =
                 [cleaningReport EXCEPT
                    !.duplicatesRemoved = removed,
                    !.stepsApplied = IF removed > 0
                                     THEN Append(@, "Removed duplicate rows")
                                     ELSE @]
    /\ pc' = "deduplicated"
    /\ UNCHANGED <<file, headers, options, heap, results, run, firstRun, stored, preCap,
                   table, analysis, apc,
                   inferred, preCoerce, job>>

\* ------------------------------------------------- cleanCSVData, step 2
\* an own property key that is an array index: object keys of this form are
\* enumerated first, in ascending numeric order, before the other keys
IsIndexKey(c) == IsNum(c) /\ c.d = 0 /\ c.n >= 0

FirstIndex(values, c) == CHOOSE i \in 1..Len(values) :
                            values[i] = c /\ \A j \in 1..(i - 1) : values[j] # c

\* mutant: among the values of the highest count the one chosen changes
\* from the first run to the second
ModeByRun(values) ==
    LET Count(c) == Cardinality({i \in 1..Len(values) : values[i] = c})
        best == CHOOSE m \in 1..Len(values) :
                    /\ \E c \in Range(values) : Count(c) = m
                    /\ \A c \in Range(values) : Count(c) <= m
        cands == {c \in Range(values) : Count(c) = best}
    IN  IF run = 1
        THEN CHOOSE c \in cands :
                 \A e \in cands : FirstIndex(values, c) <= FirstIndex(values, e)
        ELSE CHOOSE c \in cands :
                 \A e \in cands : FirstIndex(values, c) >= FirstIndex(values, e)

\* _.chain(values).countBy().toPairs().maxBy(1).value()[0]: the first key,
\* in the enumeration order of the counting object, with the highest count
Mode(values) ==
    LET Count(c) == Cardinality({i \in 1..Len(values) : values[i] = c})
        best == CHOOSE m \in 1..Len(values) :
                    /\ \E c \in Range(values) : Count(c) = m
                    /\ \A c \in Range(values) : Count(c) <= m
        cands == {c \in Range(values) : Count(c) = best}
        indexCands == {c \in cands : IsIndexKey(c)}
    IN  IF indexCands # {}
        THEN CHOOSE c \in indexCands : \A e \in indexCands : c.n <= e.n
        ELSE CHOOSE c \in cands :
                 \A e \in cands : FirstIndex(values, c) <= FirstIndex(values, e)

\* the median of the imputation (server.js 1452-1459)
Median(numericValues) ==
    LET sorted == SortNum(numericValues)
        n == Len(sorted)
    IN  IF n % 2 = 0
        THEN (sorted[n \div 2] + sorted[n \div 2 + 1]) \div 2
        ELSE sorted[n \div 2 + 1]

\* the body of headers.forEach of step 2 for one column
ImputeColumn(h, data, column) ==
    LET cells == Column(h, data, column)
        missingIndices == {i \in 1..Len(data) : IsMissing(cells[i])}
        missingRows == {data[i] : i \in missingIndices}
        dataType == detectDataType(SelectSeq(cells, HasValue))
        Fill(v) == [r \in DOMAIN h |->
                      IF r \in missingRows THEN [h[r] EXCEPT ![column] = v] ELSE h[r]]
    IN  IF missingIndices = {} THEN [heap |-> h, imputed |-> 0]
        ELSE IF dataType = "numeric"
        THEN [heap |-> Fill(NumToString(Median(NumericValues(cells)))),
              imputed |-> Cardinality(missingIndices)]
        ELSE IF dataType = "categorical"
        THEN [heap |-> Fill(Mode(SelectSeq(cells, HasValue))),
              imputed |-> Cardinality(missingIndices)]
        ELSE [heap |-> h, imputed |-> 0]

RECURSIVE ImputeFrom(_, _, _, _)
ImputeFrom(h, data, hs, i) ==
    IF i > Len(hs) THEN [heap |-> h, imputed |-> 0]
    ELSE LET one == ImputeColumn(h, data, hs[i])
             rest == ImputeFrom(one.heap, data, hs, i + 1)
         IN  [heap |-> rest.heap, imputed |-> one.imputed + rest.imputed]

HandleMissingValues ==
    /\ pc = "deduplicated"
    /\ LET r == ImputeFrom(heap, cleanedData, headers, 1)
       IN  /\ heap' = r.heap
           /\ cleaningReport' =
                 [cleaningReport EXCEPT
                    !.valuesImputed = r.imputed,
                    !.stepsApplied = IF r.imputed > 0
                                     THEN Append(@, "Imputed missing values")
                                     ELSE @]
    /\ pc' = "imputed"
    /\ UNCHANGED <<file, headers, options, results, cleanedData, run, firstRun, stored, preCap,
                   table, analysis, apc,
                   inferred, preCoerce, job>>

\* ------------------------------------------------- cleanCSVData, step 3
StandardizeColumn(h, data, column) ==
    IF detectDataType(Column(h, data, column)) = "categorical"
    THEN [r \in DOMAIN h |->
            IF r \in Range(data) /\ Truthy(h[r][column])
            THEN [h[r] EXCEPT ![column] = ToLowerCase(Trim(@))]
            ELSE h[r]]
    ELSE h

RECURSIVE StandardizeFrom(_, _, _, _)
StandardizeFrom(h, data, hs, i) ==
    IF i > Len(hs) THEN h
    ELSE StandardizeFrom(StandardizeColumn(h, data, hs[i]), data, hs, i + 1)

StandardizeText ==
    /\ pc = "imputed"
    /\ heap' = StandardizeFrom(heap, cleanedData, headers, 1)
    /\ cleaningReport' = [cleaningReport EXCEPT
                            !.stepsApplied = Append(@, "Standardized text format to lowercase")]
    /\ pc' = "textNormalized"
    /\ preCap' = Deref(heap', cleanedData)
    /\ inferred' = [j \in 1..Len(headers) |->
                       [values |-> Column(heap, cleanedData, headers[j]),
                        type |-> detectDataType(Column(heap, cleanedData, headers[j]))]]
    /\ UNCHANGED <<file, headers, options, results, cleanedData, run, firstRun, stored,
                   table, analysis, apc, preCoerce, job>>

\* ------------------------------------------------- cleanCSVData, step 4
\* the body of headers.forEach of step 4 for one column: the fences come
\* from numericValues in row order
CapColumn(h, data, column) ==
    LET numericValues == NumericValues(Column(h, data, column))
        lowerBound == LowerFence(numericValues)
        upperBound == UpperFence(numericValues)
        Below(r) == ParsesFloat(h[r][column]) /\ ParseFloat(h[r][column]) < lowerBound
        Above(r) == ParsesFloat(h[r][column]) /\ ParseFloat(h[r][column]) > upperBound
    IN  IF Len(numericValues) > 0 /\ Len(detectOutliers(numericValues)) > 0
        THEN [heap |-> [r \in DOMAIN h |->
                          IF r \in Range(data) /\ Below(r)
                          THEN [h[r] EXCEPT ![column] = NumToString(lowerBound)]
                          ELSE IF r \in Range(data) /\ Above(r)
                          THEN [h[r] EXCEPT ![column] = NumToString(upperBound)]
                          ELSE h[r]],
              treated |-> Cardinality({r \in Range(data) : Below(r) \/ Above(r)})]
        ELSE [heap |-> h, treated |-> 0]

RECURSIVE CapFrom(_, _, _, _)
CapFrom(h, data, hs, i) ==
    IF i > Len(hs) THEN [heap |-> h, treated |-> 0]
    ELSE LET one == CapColumn(h, data, hs[i])
             rest == CapFrom(one.heap, data, hs, i + 1)
         IN  [heap |-> rest.heap, treated |-> one.treated + rest.treated]

HandleOutliers ==
    /\ pc = "textNormalized"
    /\ LET r == CapFrom(heap, cleanedData, headers, 1)
       IN  /\ heap' = r.heap
           /\ cleaningReport' =
                 [cleaningReport EXCEPT
                    !.outliersTreated = r.treated,
                    !.stepsApplied = IF r.treated > 0
                                     THEN Append(@, "Treated outliers using IQR capping")
                                     ELSE @]
    /\ pc' = "outliersCapped"
    /\ UNCHANGED <<file, headers, options, results, cleanedData, run, firstRun, stored, preCap,
                   table, analysis, apc,
                   inferred, preCoerce, job>>

\* ------------------------------------------------- cleanCSVData, step 5
MinSeq(s) == CHOOSE x \in Range(s) : \A y \in Range(s) : x <= y

MaxSeq(s) == CHOOSE x \in Range(s) : \A y \in Range(s) : x >= y

\* the first k decimal digits of r / b after acc, and the remainder
RECURSIVE DigitsOf(_, _, _, _)
DigitsOf(r, b, k, acc) ==
    IF k = 0 THEN [q |-> acc, r |-> r]
    ELSE DigitsOf((r * 10) % b, b, k - 1, acc * 10 + (r * 10) \div b)

\* ((value - min) / range).toFixed(4) for 0 <= a <= b, b > 0
NormalizedToFixed4(a, b) ==
    LET dv == DigitsOf(a % b, b, 4, a \div b)
        tenThousandths == IF 2 * dv.r >= b THEN dv.q + 1 ELSE dv.q
    IN  Num(tenThousandths * (Scale \div 10000), 4)

NormalizeColumn(h, data, column, opt) ==
    LET numericValues == NumericValues(Column(h, data, column))
        min == MinSeq(numericValues)
        max == MaxSeq(numericValues)
        range == max - min
    IN  IF Len(numericValues) > 0 /\ opt.normalizeNumeric /\ range > 0
        THEN [r \in DOMAIN h |->
                IF r \in Range(data) /\ ParsesFloat(h[r][column])
                THEN [h[r] EXCEPT ![column] =
                         NormalizedToFixed4(ParseFloat(h[r][column]) - min, range)]
                ELSE h[r]]
        ELSE h

RECURSIVE NormalizeFrom(_, _, _, _, _)
NormalizeFrom(h, data, hs, i, opt) ==
    IF i > Len(hs) THEN h
    ELSE NormalizeFrom(NormalizeColumn(h, data, hs[i], opt), data, hs, i + 1, opt)

NormalizeNumeric ==
    /\ pc = "outliersCapped"
    /\ heap' = NormalizeFrom(heap, cleanedData, headers, 1, options)
    /\ pc' = "normalized"
    /\ preCoerce' = Deref(heap', cleanedData)
    /\ UNCHANGED <<file, headers, options, results, cleanedData, cleaningReport,
                   run, firstRun, stored, preCap, table, analysis, apc,
                   inferred, job>>

\* ------------------------------------------------- cleanCSVData, step 6
\* new Date(value).toISOString().split('T')[0], in a UTC process
IsoDate(c) == IF IsNum(c) THEN Txt("2001-01-01") ELSE Txt("2020-01-05")

BooleanTokens == {"true", "false", "yes", "no", "1", "0"}

\* the body of cleanedData.forEach of step 6 for one cell
ConvertCell(column, c) ==
    LET value == Trim(c)
    IN  IF ~Truthy(c) THEN [cell |-> c, n |-> 0]
        ELSE IF NameIncludes(column, "date") \/ NameIncludes(column, "time")
        THEN IF DateParses(value) THEN [cell |-> IsoDate(value), n |-> 1]
             ELSE [cell |-> c, n |-> 0]
        ELSE IF IsNumericString(value) /\ value # Txt("")
        THEN IF IsInteger(value.n) THEN [cell |-> NumToString(value.n), n |-> 1]
             ELSE [cell |-> ToFixed(value.n, 2), n |-> 1]
        ELSE IF LowerStr(value.s) \in BooleanTokens
        THEN [cell |-> IF LowerStr(value.s) \in {"true", "yes", "1"}
                       THEN Txt("true") ELSE Txt("false"),
              n |-> 1]
        ELSE [cell |-> c, n |-> 0]

\* a forEach over every cell of cleanedData that rewrites the cell with
\* F(column, cell).cell and counts F(column, cell).n
ConvertAll(h, data, hs) ==
    [heap |-> [r \in DOMAIN h |->
                 IF r \in Range(data)
                 THEN [c \in DOMAIN h[r] |-> ConvertCell(c, h[r][c]).cell]
                 ELSE h[r]],
     n |-> SumSeq([i \in 1..Len(data) |->
                     SumSeq([j \in 1..Len(hs) |-> ConvertCell(hs[j], h[data[i]][hs[j]]).n])])]

ConvertTypes ==
    /\ pc = "normalized"
    /\ LET r == ConvertAll(heap, cleanedData, headers)
       IN  /\ heap' = r.heap
           /\ cleaningReport' =
                 [cleaningReport EXCEPT
                    !.stepsApplied = IF r.n > 0
                                     THEN Append(@, "Converted values to appropriate data types")
                                     ELSE @]
    /\ pc' = "typesCoerced"
    /\ UNCHANGED <<file, headers, options, results, cleanedData, run, firstRun, stored, preCap,
                   table, analysis, apc,
                   inferred, preCoerce, job>>

\* ------------------------------------------------- cleanCSVData, step 7
\* value.replace(/[^\d+\-()]/g, ''): a number loses its decimal point
PhoneClean(c) ==
    IF IsNum(c) THEN (IF c.d = 0 THEN c ELSE Num(c.n * Pow10(c.d), 0))
    ELSE Txt(PhoneCleanStr(c.s))

\* the body of cleanedData.forEach of step 7 for one cell; the three
\* rewrites all start from value, the cell as it was read
ValidateCell(column, c) ==
    LET value == c
        strips == ~ParsesFloat(value) /\ ~DateParses(value)
                     /\ Txt(StripSpecial(value.s)) # value
        afterStrip == IF strips THEN Txt(StripSpecial(value.s)) ELSE c
        isEmail == NameIncludes(column, "email")
        afterEmail == IF isEmail THEN ToLowerCase(value) ELSE afterStrip
        phones == NameIncludes(column, "phone") /\ PhoneClean(value) # value
        afterPhone == IF phones THEN PhoneClean(value) ELSE afterEmail
    IN  IF ~Truthy(c) THEN [cell |-> c, n |-> 0]
        ELSE [cell |-> afterPhone,
              n |-> (IF strips THEN 1 ELSE 0) + (IF isEmail THEN 1 ELSE 0)
                       + (IF phones THEN 1 ELSE 0)]

ValidateAll(h, data, hs) ==
    [heap |-> [r \in DOMAIN h |->
                 IF r \in Range(data)
                 THEN [c \in DOMAIN h[r] |-> ValidateCell(c, h[r][c]).cell]
                 ELSE h[r]],
     n |-> SumSeq([i \in 1..Len(data) |->
                     SumSeq([j \in 1..Len(hs) |-> ValidateCell(hs[j], h[data[i]][hs[j]]).n])])]

\* mutant: Math.floor in place of Math.round
calculateDataQualityScoreTruncating(rows, hs) ==
    LET totalCells == Len(rows) * Len(hs)
        filledCells == SumSeq([i \in 1..Len(rows) |->
                          Cardinality({j \in 1..Len(hs) : HasValue(rows[i][hs[j]])})])
    IN  IF Len(rows) = 0 THEN 0
        ELSE (100 * filledCells + 270 * totalCells) \div (4 * totalCells)

\* mutant: the guard for the empty table returns the full score
calculateDataQualityScoreFullForEmpty(rows, hs) ==
    LET totalCells == Len(rows) * Len(hs)
        filledCells == SumSeq([i \in 1..Len(rows) |->
                          Cardinality({j \in 1..Len(hs) : HasValue(rows[i][hs[j]])})])
    IN  IF Len(rows) = 0 THEN 100
        ELSE (2 * (100 * filledCells + 270 * totalCells) + 4 * totalCells)
                 \div (8 * totalCells)

\* calculateDataQualityScore (server.js 1945-1983):
\* Math.round((filled / total * 100 + 85 + 90 + 95) / 4)
calculateDataQualityScore(rows, hs) ==
    LET totalCells == Len(rows) * Len(hs)
        filledCells == SumSeq([i \in 1..Len(rows) |->
                          Cardinality({j \in 1..Len(hs) : HasValue(rows[i][hs[j]])})])
    IN  IF Len(rows) = 0 THEN 0
        ELSE (2 * (100 * filledCells + 270 * totalCells) + 4 * totalCells)
                 \div (8 * totalCells)

\* step 7, the processing summary and resolve
ValidateAndResolve ==
    /\ pc = "typesCoerced"
    /\ LET r == ValidateAll(heap, cleanedData, headers)
       IN  /\ heap' = r.heap
           /\ cleaningReport' =
                 [cleaningReport EXCEPT
                    !.stepsApplied =
                        (IF r.n > 0 THEN Append(@, "Fixed data validation issues") ELSE @)
                            \o <<"Comprehensive data processing completed">>,
                    !.processingComplete = TRUE,
                    !.finalQualityScore =
                        calculateDataQualityScore(Deref(r.heap, cleanedData), headers)]
    /\ pc' = "resolved"
    /\ UNCHANGED <<file, headers, options, results, cleanedData, run, firstRun, stored, preCap,
                   table, analysis, apc,
                   inferred, preCoerce, job>>

\* ----------------------------------------- the clean-csv request handler
\* detectDataTypesForStorage (server.js 1736-1745)
detectDataTypesForStorage(data, hs) ==
    [c \in Range(hs) |-> detectDataType(SelectSeq(ColumnOf(data, c), HasValue))]

\* calculateQualityMetrics (server.js 1747-1780), the scores in hundredths.
\* A cell is missing when it is '' or blank; validCells are the others, so
\* validity is completeness.  With no row every quotient is 0 / 0.
calculateQualityMetrics(data, hs) ==
    LET totalCells == Len(data) * Len(hs)
        missingCells == SumSeq([i \in 1..Len(data) |->
                           Cardinality({j \in 1..Len(hs) : ~HasValue(data[i][hs[j]])})])
        validCells == totalCells - missingCells
        uniqueRows == uniqBy(data, [i \in 1..Len(data) |-> i])
    IN  IF totalCells = 0
        THEN [completeness |-> "NaN", consistency |-> 9500, accuracy |-> 9000,
              validity |-> "NaN", uniqueness |-> "NaN", overallScore |-> "NaN"]
        ELSE [completeness |-> PercentToFixed2(totalCells - missingCells, totalCells),
              consistency |-> 9500,
              accuracy |-> 9000,
              validity |-> PercentToFixed2(validCells, totalCells),
              uniqueness |-> PercentToFixed2(Len(uniqueRows), Len(data)),
              overallScore |->
                  PercentToFixed2((totalCells - missingCells + validCells) * Len(data)
                                      + Len(uniqueRows) * totalCells,
                                  3 * totalCells * Len(data))]

\* the handler, once cleanCSVData has resolved, computes the metadata it
\* stores with the cleaned data (server.js 616-642)
BuildMetadata ==
    /\ pc = "resolved"
    /\ stored' = [dataTypes |-> detectDataTypesForStorage(Deref(heap, cleanedData), headers),
                  qualityMetrics |-> calculateQualityMetrics(Deref(heap, cleanedData),
                                                             headers)]
    /\ pc' = "stored"
    /\ UNCHANGED <<file, headers, options, heap, results, cleanedData, cleaningReport,
                   run, firstRun, preCap, table, analysis, apc,
                   inferred, preCoerce, job>>

\* ------------------------------------------- cleaning the same file twice
\* a second request for the same file: the result of the first is kept
\* aside and the parser builds new row objects from the file
CleanSameAgain ==
    /\ pc = "resolved"
    /\ run = 1
    /\ firstRun' = [data |-> Deref(heap, cleanedData), headers |-> headers,
                    report |-> cleaningReport]
    /\ heap' = file
    /\ results' = [i \in 1..Len(file) |-> i]
    /\ cleanedData' = << >>
    /\ cleaningReport' = NewCleaningReport
    /\ preCap' = << >>
    /\ pc' = "parsed"
    /\ run' = 2
    /\ inferred' = << >>
    /\ preCoerce' = << >>
    /\ UNCHANGED <<file, headers, options, stored, table, analysis, apc, job>>

\* ------------------------------------- cleaning the cleaned table again
\* the resolved data is written out and the written file is cleaned: the
\* parser builds new row objects from it
CleanAgain ==
    /\ pc = "resolved"
    /\ run = 1
    /\ file' = Deref(heap, cleanedData)
    /\ heap' = file'
    /\ results' = [i \in 1..Len(file') |-> i]
    /\ headers' = (IF Len(file') = 0 THEN << >> ELSE headers)
    /\ cleanedData' = << >>
    /\ cleaningReport' = NewCleaningReport
    /\ preCap' = << >>
    /\ pc' = "parsed"
    /\ run' = 2
    /\ inferred' = << >>
    /\ preCoerce' = << >>
    /\ UNCHANGED <<options, firstRun, stored, table, analysis, apc, job>>

\* ------------------------------------------------------ analyzeCSVQuality
\* texts of the alphabet matching /^[^\s@]+@[^\s@]+\.[^\s@]+$/
EmailTexts == {"a@b.co", "A@B.co"}

\* validateDataPattern (server.js 1852-1880): the number of values that do
\* not fit the pattern of dataType; a type without a case counts nothing
validateDataPattern(values, dataType) ==
    CASE dataType = "email" ->
           Len(SelectSeq(values, LAMBDA v : IsNum(v) \/ v.s \notin EmailTexts))
      [] dataType = "phone" ->
           Len(SelectSeq(values, LAMBDA v : ~(IsNum(v) /\ v.d = 0 /\ v.n > 0)
                                              /\ v # Txt("+1 (555) 010")))
      [] dataType = "date" -> Len(SelectSeq(values, LAMBDA v : ~DateParses(v)))
      [] dataType = "numeric" -> Len(SelectSeq(values, LAMBDA v : ~ParsesFloat(v)))
      [] dataType = "url" -> Len(values)
      [] OTHER -> 0

\* the validity loop (server.js 1375-1383): the score as a fraction
\* <<numerator, denominator>> after columns i..Len(hs)
RECURSIVE ValidityFrom(_, _, _, _, _)
ValidityFrom(rows, hs, types, i, score) ==
    IF i > Len(hs) THEN score
    ELSE LET values == SelectSeq(ColumnOf(rows, hs[i]), HasValue)
             invalidCount == validateDataPattern(values, types[hs[i]])
         IN  IF invalidCount > 0
             THEN ValidityFrom(rows, hs, types, i + 1,
                      <<score[1] * Len(values) - 20 * invalidCount * score[2],
                        score[2] * Len(values)>>)
             ELSE ValidityFrom(rows, hs, types, i + 1, score)

FirstFive(s) == SubSeq(s, 1, IF Len(s) < 5 THEN Len(s) ELSE 5)

\* analysis.summary[column] (server.js 1336-1347); skewness and kurtosis
\* after toFixed(2): "0.00", "NaN", or "finite" for any other number
ColumnSummary(numericValues) ==
    LET sorted == SortNum(numericValues)
        Reported(x) == IF x = "0" THEN "0.00" ELSE x
        Quantile(p) == IF percentileKind(sorted, p) = "finite"
                       THEN ToFixed(percentile(sorted, p), 2)
                       ELSE Txt(percentileKind(sorted, p))
    IN  [count |-> Len(numericValues),
         mean |-> IF HasInfinity(numericValues) THEN Txt("Infinity")
                  ELSE ToFixed(RoundDiv(SumSeq(numericValues), Len(numericValues)), 2),
         median |-> Quantile(50),
         min |-> MinSeq(numericValues),
         max |-> MaxSeq(numericValues),
         q1 |-> Quantile(25),
         q3 |-> Quantile(75),
         skewness |-> Reported(calculateSkewness(numericValues)),
         kurtosis |-> Reported(calculateKurtosis(numericValues))]

\* analysis.outliers[column] (server.js 1350-1356)
ColumnOutliers(numericValues) ==
    LET outliers == detectAdvancedOutliers(numericValues)
    IN  [count |-> Len(outliers.iqr) + Len(outliers.zscore),
         iqrOutliers |-> FirstFive(outliers.iqr),
         zscoreOutliers |-> FirstFive(outliers.zscore),
         percentage |-> PercentToFixed2(Len(outliers.iqr) + Len(outliers.zscore),
                                        Len(numericValues))]

\* the largest t with t * t <= n, for lo * lo <= n < hi * hi
RECURSIVE Isqrt(_, _, _)
Isqrt(n, lo, hi) ==
    IF hi - lo <= 1 THEN lo
    ELSE LET mid == (lo + hi) \div 2
         IN  IF mid * mid <= n THEN Isqrt(n, mid, hi) ELSE Isqrt(n, lo, mid)

\* calculateCorrelation (server.js 1827-1850) as [nan, num, den2]: NaN, or
\* the number num / sqrt(den2).  numerator, sum1 and sum2 are taken of the
\* deviations times a positive factor per column, which leaves the quotient
\* as it is.  With Infinity in a pair its column's mean is Infinity, the
\* deviation of Infinity is NaN, and so are the sum, the denominator (which
\* is then not === 0) and the quotient.
calculateCorrelation(data, col1, col2) ==
    LET both == {i \in 1..Len(data) :
                    ParsesFloat(data[i][col1]) /\ ParsesFloat(data[i][col2])}
        pairs == [k \in 1..Cardinality(both) |->
                    data[CHOOSE i \in both : Cardinality({m \in both : m < i}) = k - 1]]
        xs == [k \in 1..Len(pairs) |-> ParseFloat(pairs[k][col1])]
        ys == [k \in 1..Len(pairs) |-> ParseFloat(pairs[k][col2])]
        diff1 == Deviations(xs)
        diff2 == Deviations(ys)
        numerator == SumSeq([k \in 1..Len(pairs) |-> diff1[k] * diff2[k]])
        sum1 == SumSquares(diff1)
        sum2 == SumSquares(diff2)
    IN  IF Len(pairs) < 2 THEN [nan |-> FALSE, num |-> 0, den2 |-> 1]
        ELSE IF HasInfinity(xs) \/ HasInfinity(ys)
        THEN [nan |-> TRUE, num |-> 0, den2 |-> 1]
        ELSE IF sum1 * sum2 = 0 THEN [nan |-> FALSE, num |-> 0, den2 |-> 1]
        ELSE [nan |-> FALSE, num |-> numerator, den2 |-> sum1 * sum2]

\* correlation.toFixed(3) as [nan, k]: "NaN", or k thousandths.  The
\* thousandths of |num| / sqrt(den2) are the root t of the millionths of
\* num^2 / den2, and one more when num^2 / den2 reaches (t + 1/2)^2.
CorrelationToFixed3(r) ==
    LET a2 == r.num * r.num
        millionths == DigitsOf(a2 % r.den2, r.den2, 6, a2 \div r.den2).q
        t == Isqrt(millionths, 0, 1002)
        fourfold == DigitsOf((4 * a2) % r.den2, r.den2, 6, (4 * a2) \div r.den2).q
        k == IF fourfold >= 4 * t * t + 4 * t + 1 THEN t + 1 ELSE t
    IN  IF r.nan THEN [nan |-> TRUE, k |-> 0]
        ELSE [nan |-> FALSE, k |-> IF r.num < 0 THEN 0 - k ELSE k]

\* the pairs (numericColumns[i], numericColumns[j]), i < j (server.js 1362-1372)
CorrelationPairs(hs, types) ==
    LET numericColumns == SelectSeq(hs, LAMBDA c : types[c] = "numeric")
        n == Len(numericColumns)
    IN  {<<numericColumns[q[1]], numericColumns[q[2]]>> :
            q \in {q \in (1..n) \X (1..n) : q[1] < q[2]}}

\* mutant: the duplicates item is pushed before the items of the columns
generateDataQualityRecommendationsDuplicatesFirst(a, hs) ==
    LET One(type) == <<[type |-> type, column |-> ""]>>
        PerColumn(type, cs) == [k \in 1..Len(cs) |-> [type |-> type, column |-> cs[k]]]
        missing == SelectSeq(hs, LAMBDA c : a.missingValues[c].percentage > 2000)
        outlying == SelectSeq(hs, LAMBDA c : /\ c \in DOMAIN a.outliers
                                             /\ a.outliers[c].percentage > 500)
    IN  (IF a.qualityMetrics.completeness < 9000 THEN One("completeness") ELSE << >>)
        \o (IF a.duplicates > 0 THEN One("duplicates") ELSE << >>)
        \o PerColumn("missing_values", missing)
        \o PerColumn("outliers", outlying)
        \o (IF a.qualityMetrics.consistency < 9500 THEN One("consistency") ELSE << >>)

\* generateDataQualityRecommendations (server.js 1882-1942): the type of
\* every recommendation, with its column where it has one, in the order
\* pushed.  Object.keys gives the columns in header order, no header of the
\* model being an array index.
generateDataQualityRecommendations(a, hs) ==
    LET One(type) == <<[type |-> type, column |-> ""]>>
        PerColumn(type, cs) == [k \in 1..Len(cs) |-> [type |-> type, column |-> cs[k]]]
        missing == SelectSeq(hs, LAMBDA c : a.missingValues[c].percentage > 2000)
        outlying == SelectSeq(hs, LAMBDA c : /\ c \in DOMAIN a.outliers
                                             /\ a.outliers[c].percentage > 500)
    IN  (IF a.qualityMetrics.completeness < 9000 THEN One("completeness") ELSE << >>)
        \o PerColumn("missing_values", missing)
        \o PerColumn("outliers", outlying)
        \o (IF a.duplicates > 0 THEN One("duplicates") ELSE << >>)
        \o (IF a.qualityMetrics.consistency < 9500 THEN One("consistency") ELSE << >>)

\* the report the 'end' handler builds from results (server.js 1275-1398),
\* but for overallScore
AnalysisOf(rows, hs) ==
    LET cols == Range(hs)
        missingCount == [c \in cols |->
                           Len(SelectSeq(ColumnOf(rows, c), IsMissing))]
        totalMissingValues == SumSeq([j \in 1..Len(hs) |-> missingCount[hs[j]]])
        totalCells == Len(rows) * Len(hs)
        types == [c \in cols |->
                    detectDataType(SelectSeq(ColumnOf(rows, c), HasValue))]
        consistencyIssues == Cardinality({c \in cols : types[c] = "mixed"})
        uniqueRows == uniqBy(rows, [i \in 1..Len(rows) |-> i])
        numericColumns == {c \in cols : types[c] = "numeric"
                              /\ Len(NumericValues(ColumnOf(rows, c))) > 0}
        validityScore == ValidityFrom(rows, hs, types, 1, <<100, 1>>)
        completeness == PercentToFixed2(totalCells - totalMissingValues, totalCells)
        consistency == PercentToFixed2(Len(hs) - consistencyIssues, Len(hs))
        validity == RoundDiv(Max2(0, validityScore[1]) * 100, validityScore[2])
        uniqueness == PercentToFixed2(Len(uniqueRows), Len(rows))
        scored ==
             [totalRows |-> Len(rows),
              totalColumns |-> Len(hs),
              missingValues |-> [c \in cols |->
                  [count |-> missingCount[c],
                   percentage |-> PercentToFixed2(missingCount[c], Len(rows))]],
              duplicates |-> Len(rows) - Len(uniqueRows),
              dataTypes |-> types,
              outliers |-> [c \in numericColumns |->
                              ColumnOutliers(NumericValues(ColumnOf(rows, c)))],
              summary |-> [c \in numericColumns |->
                             ColumnSummary(NumericValues(ColumnOf(rows, c)))],
              correlations |-> [p \in CorrelationPairs(hs, types) |->
                  CorrelationToFixed3(calculateCorrelation(rows, p[1], p[2]))],
              qualityMetrics |->
                 [completeness |-> completeness,
                  consistency |-> consistency,
                  accuracy |-> 0,
                  validity |-> validity,
                  uniqueness |-> uniqueness,
                  overallScore |-> 0],
              recommendations |-> << >>]
    IN  IF Len(rows) = 0 THEN NewAnalysis
        ELSE [scored EXCEPT
                 !.recommendations = generateDataQualityRecommendations(scored, hs)]

\* mutant: the sum of the four scores is divided by 3
OverallScoresOfThree(a) ==
    LET sum == a.qualityMetrics.completeness + a.qualityMetrics.consistency
                  + a.qualityMetrics.validity + a.qualityMetrics.uniqueness
    IN  IF a.totalRows = 0 THEN {0} ELSE {RoundDiv(sum, 3)}

\* (scores.reduce((a, b) => a + b, 0) / scores.length).toFixed(2) (server.js
\* 1386-1392), in hundredths.  The four scores are parsed from two-decimal
\* strings; when their sum is an odd number of two hundredths the quotient
\* lies halfway between two hundredths and the double that stands for it is
\* rounded to either, depending on the scores.  No row: the score stays 0.
OverallScores(a) ==
    LET sum == a.qualityMetrics.completeness + a.qualityMetrics.consistency
                  + a.qualityMetrics.validity + a.qualityMetrics.uniqueness
    IN  IF a.totalRows = 0 THEN {0}
        ELSE IF sum % 4 = 2 THEN {sum \div 4, sum \div 4 + 1}
        ELSE {RoundDiv(sum, 4)}

\* mutant: the missing-value test lower-cases the cell in place
AnalyzeLowercasing ==
    /\ apc = "parsed"
    /\ \E report \in {AnalysisOf(table, headers)} :
           \E o \in OverallScores(report) :
               analysis' = [report EXCEPT !.qualityMetrics.overallScore = o]
    /\ table' = [i \in 1..Len(table) |->
                   [c \in DOMAIN table[i] |-> ToLowerCase(table[i][c])]]
    /\ apc' = "resolved"
    /\ UNCHANGED <<file, headers, options, heap, results, cleanedData,
                   cleaningReport, pc, run, firstRun, stored, preCap,
                   inferred, preCoerce, job>>

\* the 'end' handler of analyzeCSVQuality: it reads results and builds the
\* report; no statement of it assigns to a row
Analyze ==
    /\ apc = "parsed"
    /\ \E report \in {AnalysisOf(table, headers)} :
           \E o \in OverallScores(report) :
               analysis' = [report EXCEPT !.qualityMetrics.overallScore = o]
    /\ apc' = "resolved"
    /\ UNCHANGED <<file, headers, options, heap, results, cleanedData,
                   cleaningReport, pc, run, firstRun, stored, preCap, table,
                   inferred, preCoerce, job>>

\* ------------------------------------- the analyze-csv request handler
\* the paths of analysisResults the schema of the job keeps
\* (models/index.js 93-101)
StoredResults(a) ==
    [totalRows |-> a.totalRows, totalColumns |-> a.totalColumns,
     missingValues |-> a.missingValues, duplicates |-> a.duplicates,
     dataTypes |-> a.dataTypes, summary |-> a.summary]

\* res.status(code).json({success: false, error})
ErrorReply(code) == [status |-> code, success |-> FALSE, analysis |-> << >>]

\* the collection accepts the document the handler holds
Accepted(j) == [j EXCEPT !.saved = j.jobRecord,
                         !.saves = Append(j.saves, j.jobRecord.status)]

\* if (!req.file) return res.status(400) (server.js 523-528)
RejectMissingFile ==
    /\ job.pc = "received"
    /\ ~job.file
    /\ job' = [job EXCEPT !.res = ErrorReply(400), !.pc = "responded"]
    /\ UNCHANGED <<file, headers, options, heap, results, cleanedData, cleaningReport,
                   pc, run, preCap, firstRun, stored, inferred, preCoerce,
                   table, analysis, apc>>

\* new DataProcessingJob({... status: 'processing' ...}) and the call of
\* jobRecord.save() (server.js 530-545)
CreateJob ==
    /\ job.pc = "received"
    /\ job.file
    /\ job' = [job EXCEPT
                  !.jobRecord = [status |-> "processing", errorMessage |-> "",
                                 analysisResults |-> << >>],
                  !.pc = "savingProcessing"]
    /\ UNCHANGED <<file, headers, options, heap, results, cleanedData, cleaningReport,
                   pc, run, preCap, firstRun, stored, inferred, preCoerce,
                   table, analysis, apc>>

\* the first save settles: accepted, analyzeCSVQuality is called; rejected,
\* the outer catch answers 500 (server.js 545-548, 574-579)
SaveProcessing ==
    /\ job.pc = "savingProcessing"
    /\ \/ job' = [Accepted(job) EXCEPT !.pc = "analysing"]
       \/ job' = [job EXCEPT !.rejected = TRUE, !.res = ErrorReply(500),
                             !.pc = "responded"]
    /\ UNCHANGED <<file, headers, options, heap, results, cleanedData, cleaningReport,
                   pc, run, preCap, firstRun, stored, inferred, preCoerce,
                   table, analysis, apc>>

\* the 'end' handler of the analysis the handler awaits
AnalyzeForJob ==
    /\ job.pc = "analysing"
    /\ Analyze

\* the promise of analyzeCSVQuality resolves: the handler sets the record
\* to completed with the report and calls save (server.js 548-554)
CompleteJob ==
    /\ job.pc = "analysing"
    /\ apc = "resolved"
    /\ job' = [job EXCEPT
                  !.jobRecord = [status |-> "completed", errorMessage |-> "",
                                 analysisResults |-> StoredResults(analysis)],
                  !.pc = "savingCompleted"]
    /\ UNCHANGED <<file, headers, options, heap, results, cleanedData, cleaningReport,
                   pc, run, preCap, firstRun, stored, inferred, preCoerce,
                   table, analysis, apc>>

\* the promise rejects (the 'error' event of the stream, server.js
\* 1403-1405): the inner catch sets the record to failed with the message
\* and calls save (server.js 566-570)
AnalysisRejected ==
    /\ job.pc = "analysing"
    /\ apc = "parsed"
    /\ apc' = "rejected"
    /\ job' = [job EXCEPT
                  !.jobRecord = [@ EXCEPT !.status = "failed",
                                          !.errorMessage = "read error"],
                  !.pc = "savingFailed"]
    /\ UNCHANGED <<file, headers, options, heap, results, cleanedData, cleaningReport,
                   pc, run, preCap, firstRun, stored, inferred, preCoerce,
                   table, analysis>>

\* mutant: the reply is sent before the save of the completed record is
\* awaited
SaveCompletedAfterReply ==
    /\ job.pc = "savingCompleted"
    /\ \/ job' = [Accepted(job) EXCEPT
                     !.res = [status |-> 200, success |-> TRUE, analysis |-> analysis],
                     !.pc = "responded"]
       \/ job' = [job EXCEPT
                     !.rejected = TRUE,
                     !.res = [status |-> 200, success |-> TRUE, analysis |-> analysis],
                     !.pc = "responded"]
    /\ UNCHANGED <<file, headers, options, heap, results, cleanedData, cleaningReport,
                   pc, run, preCap, firstRun, stored, inferred, preCoerce,
                   table, analysis, apc>>

\* the save of the completed record settles: accepted, res.json answers
\* with the report; rejected, the inner catch sets the record to failed
\* with the message and calls save (server.js 554-570)
SaveCompleted ==
    /\ job.pc = "savingCompleted"
    /\ \/ job' = [Accepted(job) EXCEPT
                     !.res = [status |-> 200, success |-> TRUE, analysis |-> analysis],
                     !.pc = "responded"]
       \/ job' = [job EXCEPT
                     !.rejected = TRUE,
                     !.jobRecord = [@ EXCEPT !.status = "failed",
                                             !.errorMessage = "save error"],
                     !.pc = "savingFailed"]
    /\ UNCHANGED <<file, headers, options, heap, results, cleanedData, cleaningReport,
                   pc, run, preCap, firstRun, stored, inferred, preCoerce,
                   table, analysis, apc>>

\* the save of the failed record settles: accepted, the inner catch
\* rethrows; rejected, the save throws; the outer catch answers 500
\* (server.js 570-579)
SaveFailed ==
    /\ job.pc = "savingFailed"
    /\ \/ job' = [Accepted(job) EXCEPT !.res = ErrorReply(500), !.pc = "responded"]
       \/ job' = [job EXCEPT !.rejected = TRUE, !.res = ErrorReply(500),
                             !.pc = "responded"]
    /\ UNCHANGED <<file, headers, options, heap, results, cleanedData, cleaningReport,
                   pc, run, preCap, firstRun, stored, inferred, preCoerce,
                   table, analysis, apc>>

Clean == \/ RemoveDuplicates
         \/ HandleMissingValues
         \/ StandardizeText
         \/ HandleOutliers
         \/ NormalizeNumeric
         \/ ConvertTypes
         \/ ValidateAndResolve

Next == Clean

\* cleaning a file
Spec == Init /\ [][Next]_vars

NextReclean == Clean \/ CleanAgain

\* cleaning a file, and cleaning the file that cleaning wrote
SpecReclean == Init /\ [][NextReclean]_vars

\* the files of Init and two large files
InitAnalyze ==
    \/ Init
    \/ \E m \in 0..1 : Parsed(LargeTable(m), LargeHeaders, [normalizeNumeric |-> FALSE])

NextAnalyze == Analyze

\* analysing a file
SpecAnalyze == InitAnalyze /\ [][NextAnalyze]_vars

NextAge == Clean \/ Analyze

\* analysing and cleaning a file of one numeric column
SpecAge == InitAge /\ [][NextAge]_vars

NextMixed == Clean \/ BuildMetadata \/ Analyze

\* analysing a file of mixed content, cleaning it and storing the result
SpecMixed == InitMixed /\ [][NextMixed]_vars

NextPairs == Analyze

\* analysing a file of two columns of numbers
SpecPairs == InitPairs /\ [][NextPairs]_vars

NextRepeat == Clean \/ CleanSameAgain

\* cleaning a file twice
SpecRepeat == InitMixed /\ [][NextRepeat]_vars

NextJob == \/ RejectMissingFile
           \/ CreateJob
           \/ SaveProcessing
           \/ AnalyzeForJob
           \/ CompleteJob
           \/ AnalysisRejected
           \/ SaveCompleted
           \/ SaveFailed

\* a request for /api/analyze-csv
SpecJob == InitJob /\ [][NextJob]_vars

NextLists == Analyze

\* analysing a file of one column of a few numbers
SpecLists == InitLists /\ [][NextLists]_vars

NextTypes == Clean \/ Analyze

\* analysing and cleaning a file of one column of values of every type
SpecTypes == InitTypes /\ [][NextTypes]_vars

\* ------------------------------------------------------------------ claims
AfterCapping == pc \in {"outliersCapped", "normalized", "typesCoerced", "resolved"}

CleanedTable == Deref(heap, cleanedData)

\* every number of the column lies within the fences of the sorted values
\* the column held when capping started
WithinSortedFences(column) ==
    LET before == SortNum(NumericValues(ColumnOf(preCap, column)))
        after == NumericValues(ColumnOf(CleanedTable, column))
    IN  \A i \in 1..Len(after) :
            LowerFence(before) <= after[i] /\ after[i] <= UpperFence(before)

\* C1: once the capping step has run (normalisation off), every numeric
\* value of every column lies within [Q1 - 1.5 IQR, Q3 + 1.5 IQR] of the
\* sorted values the column held just before capping, for every row order.
C1_CappedWithinSortedFences ==
    (AfterCapping /\ ~options.normalizeNumeric)
        => \A j \in 1..Len(headers) : WithinSortedFences(headers[j])

\* C2: cleaning the table that cleaning produced removes no duplicate and
\* imputes no value.
C2_RecleanCountersZero ==
    (run = 2 /\ pc = "resolved")
        => /\ cleaningReport.duplicatesRemoved = 0
           /\ cleaningReport.valuesImputed = 0

\* C3: from deduplication on, the cleaned table has as many rows as the
\* input has distinct rows, never more than the input; no later step adds
\* or removes a row.
C3_RowCountIsDistinctRows ==
    pc # "parsed"
        => /\ Len(cleanedData) = Cardinality(Range(file))
           /\ Len(cleanedData) <= Len(file)

C3_Witness ==
    /\ pc = "resolved"
    /\ Len(cleanedData) < Len(file)
    /\ Len(cleanedData) >= 2

\* C4: deduplication keeps the rows in input order, keeps no two rows of
\* equal content, keeps for every input row a row of the same content at
\* or before it (the first occurrence), and reports the number dropped.
C4_DedupKeepsFirstInOrder ==
    pc # "parsed"
        => /\ \A k \in 1..(Len(cleanedData) - 1) : cleanedData[k] < cleanedData[k + 1]
           /\ \A k, l \in 1..Len(cleanedData) :
                  k # l => file[cleanedData[k]] # file[cleanedData[l]]
           /\ \A i \in 1..Len(results) :
                  \E k \in 1..Len(cleanedData) :
                      cleanedData[k] <= results[i] /\ file[cleanedData[k]] = file[results[i]]
           /\ cleaningReport.duplicatesRemoved = Len(file) - Len(cleanedData)

C4_Witness ==
    /\ pc = "deduplicated"
    /\ cleaningReport.duplicatesRemoved > 0
    /\ Len(cleanedData) >= 2
    /\ cleanedData[2] > 2

NoCellMissing(rows, hs) ==
    \A i \in 1..Len(rows) : \A j \in 1..Len(hs) : ~IsMissing(rows[i][hs[j]])

\* C5: for a table with at least one row, the reported completeness is 100
\* exactly when no cell is missing.
C5_CompletenessIff ==
    (apc = "resolved" /\ Len(table) > 0)
        => ((analysis.qualityMetrics.completeness = 10000)
               <=> NoCellMissing(table, headers))

\* C6: cleaning leaves the parsed input as it was: every row object of
\* results holds the cells the parser gave it.
C6_InputNotMutated == Deref(heap, results) = file

\* C7: analysis is read-only: when the report is resolved the parsed table
\* holds exactly the rows, columns and cells of the file.
C7_AnalysisReadOnly == apc = "resolved" => table = file

C7_Witness ==
    /\ apc = "resolved"
    /\ analysis.duplicates > 0
    /\ DOMAIN analysis.summary # {}
    /\ \E c \in DOMAIN analysis.missingValues : analysis.missingValues[c].count > 0

ExampleAges == [i \in 1..5 |->
                  [c \in {"age"} |-> Int2Cell(<<10, 12, 11, 13, 1000>>[i])]]

AgeAfterCleaning == NumericValues(ColumnOf(CleanedTable, "age"))

C9_SmallColumnsReportZero ==
    apc = "resolved"
        => \A c \in DOMAIN analysis.summary :
               analysis.summary[c].count < 4
                   => /\ analysis.summary[c].skewness = "0.00"
                      /\ analysis.summary[c].kurtosis = "0.00"

\* the values of a column the email pattern is tried on, and the misfits
EmailValues(rows, c) == SelectSeq(ColumnOf(rows, c), HasValue)

EmailMisfits(rows, c) == validateDataPattern(EmailValues(rows, c), "email")

\* C10: a column named email holding a value that does not match the email
\* pattern lowers validity below 100, by (invalidCount / valueCount) * 20.
C10_BadEmailLowersValidity ==
    (apc = "resolved" /\ Len(table) > 0)
        => \A c \in Range(headers) :
               (NameIncludes(c, "email") /\ EmailMisfits(table, c) > 0)
                   => /\ analysis.qualityMetrics.validity < 10000
                      /\ analysis.qualityMetrics.validity
                            = 10000 - RoundDiv(2000 * EmailMisfits(table, c),
                                               Len(EmailValues(table, c)))

\* the column as cleanedData held it before the imputation step: until
\* then every row object holds the cells the parser gave it
BeforeImputation(column) == Column(file, cleanedData, column)

AllMissing(cells) == Len(cells) > 0 /\ \A i \in 1..Len(cells) : IsMissing(cells[i])

\* the missing cells of the columns that hold at least one value
ImputableCells ==
    SumSeq([j \in 1..Len(headers) |->
               IF AllMissing(BeforeImputation(headers[j])) THEN 0
               ELSE Len(SelectSeq(BeforeImputation(headers[j]), IsMissing))])

\* C11: for a column in which every cell is missing (empty, blank or
\* "null" in any letter case) the type inferred during imputation is
\* unknown, imputation changes no cell of it, and it adds nothing to
\* valuesImputed.
C11_AllMissingColumnUntouched ==
    (pc = "imputed" /\ run = 1)
        => /\ \A j \in 1..Len(headers) :
                  AllMissing(BeforeImputation(headers[j]))
                      => /\ detectDataType(SelectSeq(BeforeImputation(headers[j]),
                                                     HasValue)) = "unknown"
                         /\ Column(heap, cleanedData, headers[j])
                                = BeforeImputation(headers[j])
           /\ cleaningReport.valuesImputed <= ImputableCells

\* C12: every correlation coefficient analysis reports for a pair of
\* numeric columns is a number in [-1, 1].
C12_CorrelationWithinUnit ==
    apc = "resolved"
        => \A p \in DOMAIN analysis.correlations :
               /\ ~analysis.correlations[p].nan
               /\ analysis.correlations[p].k >= 0 - 1000
               /\ analysis.correlations[p].k <= 1000

\* the values of column c in the rows where both c1 and c2 parse as numbers
PairedValues(rows, c, c1, c2) ==
    NumericValues(ColumnOf(SelectSeq(rows, LAMBDA row : ParsesFloat(row[c1])
                                                           /\ ParsesFloat(row[c2])), c))

\* the sum of squared deviations of the values is 0: they are one number
ZeroSumOfSquares(values) == \A i, j \in 1..Len(values) : values[i] = values[j]

\* fewer than 2 rows with both values, or a column that does not vary
Degenerate(rows, c1, c2) ==
    \/ Len(PairedValues(rows, c1, c1, c2)) < 2
    \/ (~HasInfinity(PairedValues(rows, c1, c1, c2))
            /\ ZeroSumOfSquares(PairedValues(rows, c1, c1, c2)))
    \/ (~HasInfinity(PairedValues(rows, c2, c1, c2))
            /\ ZeroSumOfSquares(PairedValues(rows, c2, c1, c2)))

\* C13: calculateCorrelation returns exactly 0, never NaN, when fewer than
\* 2 rows have both values parseable as numbers or when either column's
\* sum of squared deviations over those rows is 0; the report then shows 0.
C13_DegenerateCorrelationIsZero ==
    apc = "resolved"
        => \A p \in DOMAIN analysis.correlations :
               Degenerate(table, p[1], p[2])
                   => /\ calculateCorrelation(table, p[1], p[2])
                             = [nan |-> FALSE, num |-> 0, den2 |-> 1]
                      /\ analysis.correlations[p] = [nan |-> FALSE, k |-> 0]

\* C14: for a file with no row both analysis and cleaning resolve with a
\* report: analysis gives totalRows 0, totalColumns 0, every quality metric
\* 0 and no recommendation; cleaning gives an empty table, the four
\* counters 0 and finalQualityScore 0.
C14_EmptyTableReports ==
    Len(file) = 0
        => /\ apc = "resolved"
                => /\ analysis.totalRows = 0
                   /\ analysis.totalColumns = 0
                   /\ \A m \in DOMAIN analysis.qualityMetrics :
                          analysis.qualityMetrics[m] = 0
                   /\ analysis.recommendations = << >>
           /\ pc \in {"resolved", "stored"}
                => /\ CleanedTable = << >>
                   /\ cleaningReport.processingComplete
                   /\ cleaningReport.rowsRemoved = 0
                   /\ cleaningReport.valuesImputed = 0
                   /\ cleaningReport.outliersTreated = 0
                   /\ cleaningReport.duplicatesRemoved = 0
                   /\ cleaningReport.finalQualityScore = 0

C14_Witness ==
    /\ Len(file) = 0
    /\ apc = "resolved"
    /\ pc = "resolved"
    /\ cleaningReport.processingComplete

FourScores == <<analysis.qualityMetrics.completeness, analysis.qualityMetrics.consistency,
                analysis.qualityMetrics.validity, analysis.qualityMetrics.uniqueness>>

ScoresInRange ==
    \A m \in {"completeness", "consistency", "validity", "uniqueness", "overallScore"} :
        analysis.qualityMetrics[m] >= 0 /\ analysis.qualityMetrics[m] <= 10000

\* C15 as stated: for a table with at least one row the five scores lie in
\* [0, 100] and overallScore is the arithmetic mean of the other four.
C15_OverallIsMean ==
    (apc = "resolved" /\ Len(table) > 0)
        => /\ ScoresInRange
           /\ 4 * analysis.qualityMetrics.overallScore = SumSeq(FourScores)

\* C15 amended: for a table with at least one row the five scores lie in
\* [0, 100] and overallScore is the arithmetic mean of the other four
\* written with two decimals: it is a whole number of hundredths and
\* differs from the mean by no more than half a hundredth.
C15_OverallIsRoundedMean ==
    (apc = "resolved" /\ Len(table) > 0)
        => /\ ScoresInRange
           /\ Abs(4 * analysis.qualityMetrics.overallScore - SumSeq(FourScores)) <= 2

C15_Witness ==
    /\ apc = "resolved"
    /\ Len(table) > 0
    /\ analysis.qualityMetrics.validity < 10000
    /\ analysis.qualityMetrics.uniqueness < 10000
    /\ SumSeq(FourScores) % 4 # 0

AgeBeforeCapping == NumericValues(ColumnOf(preCap, "age"))

\* the rows of the cleaned table whose number the capping step replaced
ClampedRows == {i \in 1..Len(preCap) :
                   NumericValues(ColumnOf(CleanedTable, "age"))[i] # AgeBeforeCapping[i]}

\* the rows holding a value of the IQR outlier set analysis takes of values
OutlierRows(values) ==
    {i \in 1..Len(values) : values[i] \in Range(detectAdvancedOutliers(values).iqr)}

\* C17: for a list of numbers in any order the IQR outlier set of the
\* cleaner (detectOutliers and the bounds of the capping step) is the IQR
\* outlier set of analysis (detectAdvancedOutliers): the values strictly
\* outside the fences of the sorted list.
C17_CleanerOutliersAreAnalysisOutliers ==
    (pc = "outliersCapped")
        => /\ detectOutliers(AgeBeforeCapping)
                  = detectAdvancedOutliers(AgeBeforeCapping).iqr
           /\ ClampedRows = OutlierRows(AgeBeforeCapping)
           /\ cleaningReport.outliersTreated
                  = Len(detectAdvancedOutliers(AgeBeforeCapping).iqr)

\* the type inferred for the column from the values it held when the
\* capping step started
TypeBeforeCapping(column) ==
    detectDataType(SelectSeq(ColumnOf(preCap, column), HasValue))

\* the cells of the column the capping step replaced
ClampedCells(column) ==
    Cardinality({i \in 1..Len(preCap) :
                    CleanedTable[i][column] # preCap[i][column]})

\* C18: the capping step changes cells only in columns whose inferred type
\* is numeric: a column inferred as date, categorical or unknown holds
\* after the step the cells it held before, and outliersTreated counts the
\* clamps in numeric columns only.
C18_CappingOnlyNumericColumns ==
    pc = "outliersCapped"
        => /\ \A j \in 1..Len(headers) :
                  TypeBeforeCapping(headers[j]) # "numeric"
                      => ColumnOf(CleanedTable, headers[j]) = ColumnOf(preCap, headers[j])
           /\ cleaningReport.outliersTreated
                  = SumSeq([j \in 1..Len(headers) |->
                               IF TypeBeforeCapping(headers[j]) = "numeric"
                               THEN ClampedCells(headers[j]) ELSE 0])

\* the cells of a column that are not missing
NonMissing(cells) == SelectSeq(cells, LAMBDA c : ~IsMissing(c))

\* C19: a column's type is inferred from its non-missing values only:
\* cells that are empty, blank or "null" in any letter case take no part,
\* so the type analysis reports and the type imputation infers are the
\* type of the column without them.
C19_TypeFromNonMissingOnly ==
    /\ (apc = "resolved" /\ Len(table) > 0)
           => \A c \in Range(headers) :
                  analysis.dataTypes[c] = detectDataType(NonMissing(ColumnOf(table, c)))
    /\ (pc = "imputed" /\ run = 1)
           => \A c \in Range(headers) :
                  detectDataType(SelectSeq(BeforeImputation(c), HasValue))
                      = detectDataType(NonMissing(BeforeImputation(c)))

\* the cells of the table that are not missing by the rule of analysis
PresentCells(rows, hs) ==
    SumSeq([i \in 1..Len(rows) |->
               Cardinality({j \in 1..Len(hs) : ~IsMissing(rows[i][hs[j]])})])

\* C20: one definition of a missing cell serves every component: the
\* completeness term of finalQualityScore and the completeness of
\* calculateQualityMetrics count as filled exactly the cells that analysis
\* and imputation do not count as missing.
C20_OneMissingRule ==
    LET total == Len(CleanedTable) * Len(headers)
        present == PresentCells(CleanedTable, headers)
    IN  (pc \in {"resolved", "stored"} /\ Len(CleanedTable) > 0)
            => /\ cleaningReport.finalQualityScore
                      = (2 * (100 * present + 270 * total) + 4 * total) \div (8 * total)
               /\ pc = "stored"
                      => stored.qualityMetrics.completeness
                             = PercentToFixed2(present, total)

\* the type by the rule over all the values passed
TypeOfAllValues(values) ==
    LET numeric == Len(SelectSeq(values, ParsesFloat))
        dates == Len(SelectSeq(values, DateParses))
    IN  IF Len(values) = 0 THEN "unknown"
        ELSE IF 100 * numeric > 80 * Len(values) THEN "numeric"
        ELSE IF 100 * dates > 80 * Len(values) THEN "date"
        ELSE "categorical"

\* the values analysis passes to detectDataType for a column
ValuesAnalysed(c) == SelectSeq(ColumnOf(table, c), HasValue)

\* C21 as stated: detectDataType returns unknown for an empty sequence;
\* otherwise numeric exactly when more than 80% of the values parse as
\* numbers; otherwise date exactly when more than 80% parse as dates;
\* otherwise categorical, in the analysis and in the text step alike.
C21_TypeByShareOfValues ==
    /\ apc = "resolved"
           => \A c \in DOMAIN analysis.dataTypes :
                  analysis.dataTypes[c] = TypeOfAllValues(ValuesAnalysed(c))
    /\ \A k \in 1..Len(inferred) :
           inferred[k].type = TypeOfAllValues(inferred[k].values)

\* C21 amended: detectDataType returns unknown for a sequence that holds
\* no value other than the empty string; otherwise numeric exactly when
\* more than 80% of its non-empty values parse as numbers; otherwise date
\* exactly when more than 80% of them parse as dates; otherwise
\* categorical.  Exactly 80% numeric is not numeric, and the numeric test
\* comes before the date test.
C21_TypeByShareOfNonEmpty ==
    /\ apc = "resolved"
           => \A c \in DOMAIN analysis.dataTypes :
                  analysis.dataTypes[c]
                      = TypeOfAllValues(SelectSeq(ValuesAnalysed(c), Truthy))
    /\ \A k \in 1..Len(inferred) :
           inferred[k].type = TypeOfAllValues(SelectSeq(inferred[k].values, Truthy))

C21_Witness ==
    /\ apc = "resolved"
    /\ Len(ValuesAnalysed("code")) = 5
    /\ Len(SelectSeq(ValuesAnalysed("code"), ParsesFloat)) = 4
    /\ analysis.dataTypes["code"] = "categorical"
    /\ Len(inferred) = 1
    /\ inferred[1].type = "categorical"

\* the sentences of the text, type-conversion and validation steps
UnconditionalSentences == {"Standardized text format to lowercase",
                           "Converted values to appropriate data types",
                           "Fixed data validation issues"}

\* C22: stepsApplied holds the sentence of a step only if the step changed
\* a cell: the sentence of the type conversion is there only if the table
\* differs from the one the step started with, and for a table that no
\* step alters stepsApplied holds no sentence of text standardization,
\* type conversion or validation.
C22_SentenceOnlyIfChanged ==
    /\ pc = "typesCoerced"
           => ("Converted values to appropriate data types"
                   \in Range(cleaningReport.stepsApplied)
                  => CleanedTable # preCoerce)
    /\ (pc = "resolved" /\ run = 1 /\ CleanedTable = Deref(file, cleanedData))
           => Range(cleaningReport.stepsApplied) \cap UnconditionalSentences = {}

\* the column as cleanedData holds it
ColumnNow(column) == Column(heap, cleanedData, column)

\* the type the imputation step infers for the column
TypeForImputation(column) ==
    detectDataType(SelectSeq(BeforeImputation(column), HasValue))

\* the rows of cleanedData whose cell of the column was missing
MissingBefore(column) ==
    {i \in 1..Len(cleanedData) : IsMissing(BeforeImputation(column)[i])}

\* m is a median of the values: at most half of them lie on either side,
\* and with an even number of them it is the mean of the middle two
IsMedian(m, values) ==
    LET n == Len(values)
        sorted == SortNum(values)
    IN  /\ 2 * Cardinality({i \in 1..n : values[i] < m}) <= n
        /\ 2 * Cardinality({i \in 1..n : values[i] > m}) <= n
        /\ n % 2 = 0 => 2 * m = sorted[n \div 2] + sorted[n \div 2 + 1]

\* the values that occur most often among the cells
MostFrequent(cells) ==
    LET Count(c) == Cardinality({i \in 1..Len(cells) : cells[i] = c})
    IN  {c \in Range(cells) : \A e \in Range(cells) : Count(e) <= Count(c)}

\* C23: after the imputation pass every cell that was missing holds, in a
\* column inferred numeric, the median of the column's parsed values, and
\* in a column inferred categorical, a most frequent non-missing value;
\* the cells of date and unknown columns are unchanged; valuesImputed is
\* the number of cells filled.
C23_ImputedValues ==
    (pc = "imputed" /\ run = 1)
        => /\ \A j \in 1..Len(headers) :
                  LET c == headers[j]
                      type == TypeForImputation(c)
                  IN  /\ type = "numeric"
                             => \A i \in MissingBefore(c) :
                                    /\ IsNum(ColumnNow(c)[i])
                                    /\ ColumnNow(c)[i] = NumToString(ColumnNow(c)[i].n)
                                    /\ IsMedian(ColumnNow(c)[i].n,
                                                NumericValues(BeforeImputation(c)))
                      /\ type = "categorical"
                             => \A i \in MissingBefore(c) :
                                    ColumnNow(c)[i]
                                        \in MostFrequent(NonMissing(BeforeImputation(c)))
                      /\ type \in {"date", "unknown"}
                             => ColumnNow(c) = BeforeImputation(c)
           /\ cleaningReport.valuesImputed
                  = SumSeq([j \in 1..Len(headers) |->
                               IF TypeForImputation(headers[j]) \in {"numeric", "categorical"}
                               THEN Cardinality(MissingBefore(headers[j])) ELSE 0])

\* the value of the set that comes first in the cells
FirstInRowOrder(S, cells) ==
    CHOOSE c \in S : \A e \in S : FirstIndex(cells, c) <= FirstIndex(cells, e)

\* C24: when several non-missing values of a categorical column share the
\* highest frequency, every missing cell is filled with the one of them
\* that comes first in row order, whatever the values are.
C24_TieGoesToFirstInRowOrder ==
    (pc = "imputed" /\ run = 1)
        => \A j \in 1..Len(headers) :
               LET c == headers[j]
                   values == NonMissing(BeforeImputation(c))
               IN  (TypeForImputation(c) = "categorical" /\ Len(values) > 0)
                       => \A i \in MissingBefore(c) :
                              ColumnNow(c)[i]
                                  = FirstInRowOrder(MostFrequent(values), values)

\* value.trim().toLowerCase() of a cell, as text
TrimmedLower(c) ==
    IF ~IsNum(c) THEN LowerStr(TrimStr(c.s))
    ELSE IF c = Int2Cell(1) THEN "1"
    ELSE IF c = Int2Cell(0) THEN "0"
    ELSE "number"

\* C25: the type-coercion step rewrites every cell of a column not named
\* as date or time whose trimmed value is one of true, false, yes, no, 1,
\* 0 in any letter case: to "true" for true, yes and 1, to "false" for
\* false, no and 0.
C25_BooleanTokensRewritten ==
    pc = "typesCoerced"
        => \A i \in 1..Len(preCoerce) : \A j \in 1..Len(headers) :
               LET c == headers[j]
                   token == TrimmedLower(preCoerce[i][c])
               IN  (~NameIncludes(c, "date") /\ ~NameIncludes(c, "time")
                        /\ token \in BooleanTokens)
                       => CleanedTable[i][c]
                              = (IF token \in {"true", "yes", "1"}
                                 THEN Txt("true") ELSE Txt("false"))

\* the cells of the table that are not the empty string
NonEmptyCells(rows, hs) ==
    SumSeq([i \in 1..Len(rows) |->
               Cardinality({j \in 1..Len(hs) : rows[i][hs[j]] # Txt("")})])

\* C26: finalQualityScore of a non-empty cleaned table is
\* round((C + 85 + 90 + 95) / 4), C the percentage of non-empty cells of
\* the cleaned table, halves rounded up; it is a whole number between 68
\* and 93; for an empty table it is 0.
C26_FinalScoreIsRoundedMean ==
    LET total == Len(CleanedTable) * Len(headers)
        sum == 100 * NonEmptyCells(CleanedTable, headers) + 270 * total
        score == cleaningReport.finalQualityScore
    IN  pc \in {"resolved", "stored"}
            => IF Len(CleanedTable) = 0 THEN score = 0
               ELSE /\ score \in 68..93
                    /\ (2 * score - 1) * 4 * total <= 2 * sum
                    /\ 2 * sum < (2 * score + 1) * 4 * total

C26_Witness ==
    /\ pc = "resolved"
    /\ Len(CleanedTable) > 1
    /\ NonEmptyCells(CleanedTable, headers) > 0
    /\ NonEmptyCells(CleanedTable, headers) < Len(CleanedTable) * Len(headers)
    /\ cleaningReport.finalQualityScore \in 69..92

\* the place of a recommendation type in the fixed order
TypeRank(type) == CASE type = "completeness" -> 1
                    [] type = "missing_values" -> 2
                    [] type = "outliers" -> 3
                    [] type = "duplicates" -> 4
                    [] type = "consistency" -> 5

\* the place of a column in the header
HeaderIndex(c) == CHOOSE j \in 1..Len(headers) : headers[j] = c

\* the condition under which the report is to hold the item
ItemDue(item) ==
    CASE item.type = "completeness" -> analysis.qualityMetrics.completeness < 9000
      [] item.type = "missing_values" ->
             analysis.missingValues[item.column].percentage > 2000
      [] item.type = "outliers" ->
             /\ item.column \in DOMAIN analysis.outliers
             /\ analysis.outliers[item.column].percentage > 500
      [] item.type = "duplicates" -> analysis.duplicates > 0
      [] item.type = "consistency" -> analysis.qualityMetrics.consistency < 9500

\* every item a report can hold
PossibleItems ==
    {[type |-> t, column |-> ""] : t \in {"completeness", "duplicates", "consistency"}}
        \cup {[type |-> t, column |-> c] :
                  t \in {"missing_values", "outliers"}, c \in Range(headers)}

\* C27: the recommendation list of a report holds exactly the items whose
\* threshold condition holds, each once, in the order completeness,
\* missing values per column in header order, outliers per column in
\* header order, duplicates, consistency.
C27_RecommendationOrder ==
    (apc = "resolved" /\ Len(table) > 0)
        => LET recs == analysis.recommendations
           IN  /\ Range(recs) = {item \in PossibleItems : ItemDue(item)}
               /\ \A k, l \in 1..Len(recs) :
                      k < l => \/ TypeRank(recs[k].type) < TypeRank(recs[l].type)
                               \/ /\ recs[k].type = recs[l].type
                                  /\ recs[k].column # ""
                                  /\ HeaderIndex(recs[k].column)
                                         < HeaderIndex(recs[l].column)

C27_Witness ==
    /\ apc = "resolved"
    /\ Len(analysis.recommendations) = 6
    /\ analysis.recommendations[1].type = "completeness"
    /\ analysis.recommendations[3] = [type |-> "missing_values", column |-> "y"]
    /\ analysis.recommendations[4] = [type |-> "outliers", column |-> "x"]
    /\ analysis.recommendations[6].type = "duplicates"

\* C28: for every table with at least one row the consistency score of
\* the report is 100 whatever the cells hold, no column being classified
\* as mixed, and the report holds no consistency recommendation.
C28_ConsistencyAlwaysFull ==
    (apc = "resolved" /\ Len(table) > 0)
        => /\ analysis.qualityMetrics.consistency = 10000
           /\ \A c \in DOMAIN analysis.dataTypes : analysis.dataTypes[c] # "mixed"
           /\ \A k \in 1..Len(analysis.recommendations) :
                  analysis.recommendations[k].type # "consistency"

C28_Witness ==
    /\ apc = "resolved"
    /\ Len(SelectSeq(ValuesAnalysed("code"), ParsesFloat)) >= 2
    /\ Len(SelectSeq(ValuesAnalysed("code"), LAMBDA v : ~ParsesFloat(v))) >= 2
    /\ analysis.dataTypes["code"] = "categorical"
    /\ analysis.qualityMetrics.validity = 10000

\* C29: for a list of at most 7 numbers detectAdvancedOutliers finds no
\* z-score outlier: no value lies more than 2.5 population standard
\* deviations from the mean, and with a standard deviation of 0 no value
\* is an outlier; the report shows none.
C29_NoZScoreOutlierUpToSeven ==
    apc = "resolved"
        => \A c \in DOMAIN analysis.outliers :
               Len(NumericValues(ColumnOf(table, c))) <= 7
                   => /\ detectAdvancedOutliers(NumericValues(ColumnOf(table, c))).zscore
                             = << >>
                      /\ analysis.outliers[c].zscoreOutliers = << >>
                      /\ analysis.outliers[c].count
                             = Len(detectAdvancedOutliers(
                                       NumericValues(ColumnOf(table, c))).iqr)

C29_Witness ==
    /\ apc = "resolved"
    /\ Len(table) = 7
    /\ ~StdIsZero(NumericValues(ColumnOf(table, "age")))
    /\ analysis.outliers["age"].iqrOutliers # << >>
    /\ analysis.outliers["age"].zscoreOutliers = << >>

\* the statuses of the job the collection has accepted are a start of
\* processing, then completed or failed
SavesInOrder ==
    job.saves \in {<< >>, <<"processing">>, <<"processing", "completed">>,
                   <<"processing", "failed">>}

\* a success reply is sent only when the job is saved as completed with
\* the report the reply carries
SuccessAfterCompleted ==
    (job.res # << >> /\ job.res.success)
        => /\ job.saves = <<"processing", "completed">>
           /\ job.saved.status = "completed"
           /\ job.saved.analysisResults = StoredResults(analysis)
           /\ job.res.analysis = analysis

\* a job saved as failed carries a message and is answered with 500
FailedIsAnswered ==
    (job.saved # << >> /\ job.saved.status = "failed")
        => /\ job.saved.errorMessage # ""
           /\ job.res # << >>
           /\ job.res.status = 500

====
